---- MODULE Spec2Model ----
(***************************************************************************)
(* safe_cache: a type-erased, expiring key-value cache.                    *)
(*                                                                         *)
(* The repository holds three stores and their cleanup drivers:            *)
(*   "Cache"        src/src/lib.rs   Mutex map,  async_cleanup_task        *)
(*   "CacheRwLock"  src/src/lib.rs   RwLock map, async_cleanup_task_rwlock *)
(*   "MainCache"    src/src/main.rs  Mutex map,  start_cleanup_thread      *)
(* One of them is chosen in Init (variable impl) and never changes.        *)
(*                                                                         *)
(* Callers run get / set / remove concurrently; the cleanup driver runs    *)
(* clear_expired_entries.  Every operation does all its reads and writes   *)
(* of the map inside one critical section of the map lock, so a critical   *)
(* section is one step.  set reads the clock before it asks for the lock:  *)
(* it is two steps, SetCall (expiration time computed) and SetCommit (the  *)
(* critical section).                                                      *)
(*                                                                         *)
(* SpecLock is the same program with the map lock spelled out: asking for  *)
(* the lock, taking it, each statement under it, and the release are       *)
(* separate steps (the actions named L...).                                *)
(***************************************************************************)
EXTENDS Integers, FiniteSets, TLC

\* ------------------------------------------------------------------ bounds

\* Number of concurrent callers (threads calling get/set/remove).
NumCallers == 2

\* The capacity threshold of set (10240 in the source), scaled down.
MaxCacheSize == 1

\* The clock runs from 0 (the instant the driver is started) to MaxClock.
MaxClock == 3

\* expire_seconds ranges over 0..MaxTtl.
MaxTtl == 1

\* The driver's interval secs ranges over 1..MaxSecs.
MaxSecs == 1

\* The last clock value in the fair lock-level program (FairLock).
MaxLiveClock == 1

\* ---------------------------------------------------------------- domains

Callers == 1..NumCallers

\* The cleanup driver's process id.
Driver == 0

\* One key more than the threshold, so that the map can exceed it.
Keys == 1..(MaxCacheSize + 1)

\* The runtime type tags (TypeId) of the stored values.
Types == {"i32", "u16"}

\* A stored `dyn Any`: its type tag and its value.
TypedVals == {[ty |-> "i32", v |-> 1], [ty |-> "i32", v |-> 2], [ty |-> "u16", v |-> 1]}

Impls == {"Cache", "CacheRwLock", "MainCache"}

\* Option::None of an expiration time.
NoExp == -1

\* Option<T> results of get.
NoneRes == [some |-> FALSE, v |-> 0]

SomeRes(x) == [some |-> TRUE, v |-> x]

\* No argument / nothing observed.
Null == [op |-> "none"]

\* The processes that take the map lock.
Procs == Callers \cup {Driver}

\* No process.
NoProc == -1

\* The map lock with no holder.
Unlocked == [w |-> NoProc, r |-> {}]

VARIABLES
    impl,         \* which store implementation runs
    secs,         \* the driver's interval
    data,         \* the HashMap: a function from the stored keys to entries
    mapPoisoned,  \* the map lock's poison flag
    clock,        \* SystemTime::now()
    pc,           \* each caller's position
    arg,          \* each caller's pending operation
    drv,          \* the cleanup driver: [pc, next, first]; first: it has not swept yet
    last,         \* the operation that completed in the last step, with its result
    hist,         \* ghost: per key, what happened to it last (see HistAfterSet)
    lk            \* the map lock: [w: the exclusive holder or NoProc, r: the shared holders]

vars == <<impl, secs, data, mapPoisoned, clock, pc, arg, drv, last, hist, lk>>

\* ---------------------------------------------------------- pure helpers

\* Mutant of Expiration: a ttl of 0 expires at once.
Expiration_ZeroIsNow(now, ttl) == now + ttl

\* lib.rs 33-37: expire_seconds == 0 means no expiration.
Expiration(now, ttl) == IF ttl = 0 THEN NoExp ELSE now + ttl

\* Mutant of Downcast: the value is handed out without comparing the type tag.
Downcast_Unchecked(e, T) == SomeRes(e.v)

\* value.downcast_ref::<T>().cloned(): Some only when the tag is exactly T.
Downcast(e, T) == IF e.ty = T THEN SomeRes(e.v) ELSE NoneRes

\* Whether the store implementation im uses lock().unwrap().
Unwraps(im) == im = "MainCache"

\* Whether set's overflow check is present in implementation im.
HasOverflowCheck(im) == im # "MainCache"

\* Mutant of Overflows: the check is off by one (len > 10241).
Overflows_Late(im, d) == HasOverflowCheck(im) /\ Cardinality(DOMAIN d) > MaxCacheSize + 1

\* Mutant of Overflows: only entries that have not expired are counted.
Overflows_LiveOnly(im, d) ==
    /\ HasOverflowCheck(im)
    /\ Cardinality({k \in DOMAIN d : d[k].exp = NoExp \/ d[k].exp > clock}) > MaxCacheSize

\* `if data.len() > 10240 { data.clear(); }`
Overflows(im, d) == HasOverflowCheck(im) /\ Cardinality(DOMAIN d) > MaxCacheSize

Empty == [k \in {} |-> Null]

\* Mutant of Insert: an entry that is already stored is kept (or_insert).
Insert_IfAbsent(im, d, k, e) ==
    LET base == IF Overflows(im, d) THEN Empty ELSE d
    IN [x \in (DOMAIN base) \cup {k} |-> IF x \in DOMAIN base THEN base[x] ELSE e]

\* data.insert(key, entry) after the overflow check.
Insert(im, d, k, e) ==
    LET base == IF Overflows(im, d) THEN Empty ELSE d
    IN [x \in (DOMAIN base) \cup {k} |-> IF x = k THEN e ELSE base[x]]

\* Mutant of Remove: the whole map is dropped.
Remove_Clear(d, k) == Empty

\* What data.remove(key) hands back (and the code discards): the value of the
\* entry it took out, if there was one.
Removed(d, k) == IF k \in DOMAIN d THEN SomeRes(d[k].v) ELSE NoneRes

\* data.remove(key)
Remove(d, k) == [x \in (DOMAIN d) \ {k} |-> d[x]]

\* Mutant of Retained: the comparison is the wrong way round.
Retained_Inverted(im, exp, now) == IF exp = NoExp THEN TRUE ELSE exp < now

\* Mutant of Retained: entries that expire within the next second go too.
Retained_Eager(im, exp, now) == IF exp = NoExp THEN TRUE ELSE exp > now + 1

\* Mutant of Retained: the closure keeps every entry.
Retained_All(im, exp, now) == TRUE

\* The retain closure of clear_expired_entries: keep the entry?
\*   Cache, MainCache: expiration_time.map_or(true, |et| et > now)
\*   CacheRwLock:      Some(time) => now <= time, None => true
Retained(im, exp, now) ==
    IF exp = NoExp THEN TRUE
    ELSE IF im = "CacheRwLock" THEN now <= exp
    ELSE exp > now

\* Mutant of Sweep: the map is cleared instead of filtered.
Sweep_Clear(im, d, now) == Empty

\* data.retain(...)
Sweep(im, d, now) ==
    LET keep == {k \in DOMAIN d : Retained(im, d[k].exp, now)}
    IN [k \in keep |-> d[k]]

\* The lookup of get inside the critical section (lines 23-30): a missing
\* key and a poisoned entry lock give None.  (main.rs unwraps the entry lock,
\* but an entry lock is only ever poisoned together with the map lock, which
\* get meets first.)
Lookup(d, k, T) ==
    IF k \in DOMAIN d
    THEN IF d[k].psn THEN NoneRes ELSE Downcast(d[k], T)
    ELSE NoneRes

\* The driver's first wake-up, counted from its start at clock 0:
\* tokio::time::interval completes its first tick immediately;
\* start_cleanup_thread sleeps secs first.
FirstWake(im, s) == IF im = "MainCache" THEN s ELSE 0

\* The driver's next wake-up after a sweep that was due at `due` and returned
\* at `now`: interval ticks are spaced from the previous deadline, the thread
\* sleeps secs from now.
NextWake(im, due, now, s) == IF im = "MainCache" THEN now + s ELSE due + s

\* ------------------------------------------------------------------- Init

Init ==
    /\ impl \in Impls
    /\ secs \in 1..MaxSecs
    /\ data = Empty
    /\ mapPoisoned = FALSE
    /\ clock = 0
    /\ pc = [c \in Callers |-> "idle"]
    /\ arg = [c \in Callers |-> Null]
    /\ drv = [pc |-> "wait", next |-> FirstWake(impl, secs), first |-> TRUE]
    /\ last = Null
    /\ hist = [k \in Keys |-> Null]
    /\ lk = Unlocked

\* --------------------------------------------------------------- actions

\* What the step just taken completed: the operation, its caller, its key, the
\* requested type (get), the result (get; for remove, what the map handed
\* back), whether set flushed the map, and
\* how the operation panicked ("no" when it returned).
Obs(op, c, k, T, res, flush, panic) ==
    [op |-> op, c |-> c, key |-> k, ty |-> T, res |-> res, flush |-> flush, panic |-> panic]

\* The entry set builds (lines 38-41).
Entry(tv, exp) == [ty |-> tv.ty, v |-> tv.v, exp |-> exp, psn |-> FALSE]

\* Cache::set, lines 33-37: the expiration time is computed before the lock is
\* requested.  The key and the value are parameters of the call that nothing
\* reads before the insert, so the model draws them in SetCommit.
SetCall(c, ttl) ==
    /\ pc[c] = "idle"
    /\ pc' = [pc EXCEPT ![c] = "set_lock"]
    /\ arg' = [arg EXCEPT ![c] = [op |-> "set", exp |-> Expiration(clock, ttl)]]
    /\ last' = Null
    /\ UNCHANGED <<impl, secs, data, mapPoisoned, clock, drv, hist, lk>>

\* An operation of caller c meets the poisoned map lock: lib.rs returns
\* (Err(_) => return), main.rs panics in unwrap().
PoisonedReturn(c, op, k, T) ==
    /\ pc' = [pc EXCEPT ![c] = IF Unwraps(impl) THEN "dead" ELSE "idle"]
    /\ arg' = [arg EXCEPT ![c] = Null]
    /\ last' = Obs(op, c, k, T, NoneRes, FALSE, IF Unwraps(impl) THEN "unwrap" ELSE "no")
    /\ UNCHANGED <<impl, secs, data, mapPoisoned, clock, drv, hist, lk>>

\* The ghost history of a key: Null (never set, or removed, or flushed),
\* [op |-> "set", ...] (the entry the last set stored), or
\* [op |-> "swept", exp] (a sweep removed the entry at or after its expiration
\* time exp).  After a set stored entry e under key k:
HistAfterSet(k, e) ==
    [x \in Keys |->
        IF x = k THEN [op |-> "set", ty |-> e.ty, v |-> e.v, exp |-> e.exp]
        ELSE IF Overflows(impl, data) THEN Null
        ELSE hist[x]]

\* The ghost history after a sweep at `now` turned the map into d.
HistAfterSweep(d, now) ==
    [x \in Keys |->
        IF /\ hist[x].op = "set"
           /\ x \notin DOMAIN d
           /\ hist[x].exp # NoExp
           /\ hist[x].exp <= now
        THEN [op |-> "swept", exp |-> hist[x].exp]
        ELSE hist[x]]

\* Cache::set, lines 43-53: the lock, the overflow check, the insert.
SetCommit(c, k, tv) ==
    /\ pc[c] = "set_lock"
    /\ IF mapPoisoned
       THEN PoisonedReturn(c, "set", k, tv.ty)
       ELSE /\ data' = Insert(impl, data, k, Entry(tv, arg[c].exp))
            /\ hist' = HistAfterSet(k, Entry(tv, arg[c].exp))
            /\ pc' = [pc EXCEPT ![c] = "idle"]
            /\ arg' = [arg EXCEPT ![c] = Null]
            /\ last' = Obs("set", c, k, tv.ty, NoneRes, Overflows(impl, data), "no")
            /\ UNCHANGED <<impl, secs, mapPoisoned, clock, drv, lk>>

\* Mutant of Get: a get that finds its entry past the expiration time
\* removes it (lazy expiry).
Get_Purging(c, k, T) ==
    /\ pc[c] = "idle"
    /\ ~mapPoisoned
    /\ last' = Obs("get", c, k, T, Lookup(data, k, T), FALSE, "no")
    /\ data' = IF k \in DOMAIN data /\ data[k].exp # NoExp /\ data[k].exp < clock
               THEN Remove(data, k)
               ELSE data
    /\ UNCHANGED <<impl, secs, mapPoisoned, clock, pc, arg, drv, hist, lk>>

\* Cache::get: the lock, the lookup, the entry lock, the downcast and clone.
Get(c, k, T) ==
    /\ pc[c] = "idle"
    /\ IF mapPoisoned
       THEN PoisonedReturn(c, "get", k, T)
       ELSE /\ last' = Obs("get", c, k, T, Lookup(data, k, T), FALSE, "no")
            /\ UNCHANGED <<impl, secs, data, mapPoisoned, clock, pc, arg, drv, hist, lk>>

\* Cache::remove.
RemoveKey(c, k) ==
    /\ pc[c] = "idle"
    /\ IF mapPoisoned
       THEN PoisonedReturn(c, "remove", k, "-")
       ELSE /\ data' = Remove(data, k)
            /\ hist' = [x \in Keys |-> IF x = k THEN Null ELSE hist[x]]
            /\ last' = Obs("remove", c, k, "-", Removed(data, k), FALSE, "no")
            /\ UNCHANGED <<impl, secs, mapPoisoned, clock, pc, arg, drv, lk>>

\* One turn of the driver's loop: the tick / sleep has elapsed and
\* clear_expired_entries runs (lib.rs 65-73, 171-182; main.rs 46-50).
DrvSweep ==
    /\ drv.pc = "wait"
    /\ clock >= drv.next
    /\ IF mapPoisoned
       THEN /\ drv' = IF Unwraps(impl)
                      THEN [drv EXCEPT !.pc = "dead"]
                      ELSE [drv EXCEPT !.next = NextWake(impl, drv.next, clock, secs),
                                       !.first = FALSE]
            /\ last' = Obs("sweep", Driver, 0, "-", NoneRes, FALSE,
                           IF Unwraps(impl) THEN "unwrap" ELSE "no")
            /\ UNCHANGED <<data, hist>>
       ELSE /\ data' = Sweep(impl, data, clock)
            /\ hist' = HistAfterSweep(Sweep(impl, data, clock), clock)
            /\ drv' = [drv EXCEPT !.next = NextWake(impl, drv.next, clock, secs),
                                  !.first = FALSE]
            /\ last' = Obs("sweep", Driver, 0, "-", NoneRes, FALSE, "no")
    /\ UNCHANGED <<impl, secs, mapPoisoned, clock, pc, arg, lk>>

\* Time passes.
Tick ==
    /\ clock < MaxClock
    /\ clock' = clock + 1
    /\ last' = Null
    /\ UNCHANGED <<impl, secs, data, mapPoisoned, pc, arg, drv, hist, lk>>

\* T::clone panics inside get (line 27) while the map guard and the entry
\* guard are held.  A Mutex guard dropped while panicking poisons its mutex;
\* an RwLock read guard does not.
PanicInClone(c, k, T) ==
    /\ pc[c] = "idle"
    /\ ~mapPoisoned
    /\ k \in DOMAIN data
    /\ ~data[k].psn
    /\ data[k].ty = T
    /\ mapPoisoned' = (impl # "CacheRwLock")
    /\ data' = IF impl = "CacheRwLock" THEN data ELSE [data EXCEPT ![k].psn = TRUE]
    /\ pc' = [pc EXCEPT ![c] = "dead"]
    /\ last' = Obs("get", c, k, T, NoneRes, FALSE, "clone")
    /\ UNCHANGED <<impl, secs, clock, arg, drv, hist, lk>>

\* The value that insert replaces is dropped at the end of line 52, under the
\* map guard; its Drop panics.  The guard (Mutex or RwLock write) poisons the
\* map lock.
PanicInDrop(c, k, tv) ==
    /\ pc[c] = "set_lock"
    /\ ~mapPoisoned
    /\ k \in DOMAIN data
    /\ ~Overflows(impl, data)
    /\ data' = Insert(impl, data, k, Entry(tv, arg[c].exp))
    /\ hist' = HistAfterSet(k, Entry(tv, arg[c].exp))
    /\ mapPoisoned' = TRUE
    /\ pc' = [pc EXCEPT ![c] = "dead"]
    /\ arg' = [arg EXCEPT ![c] = Null]
    /\ last' = Obs("set", c, k, tv.ty, NoneRes, FALSE, "drop")
    /\ UNCHANGED <<impl, secs, clock, drv, lk>>

\* --------------------------------------------------------- specifications

CallerStep ==
    \E c \in Callers :
        \/ \E ttl \in 0..MaxTtl : SetCall(c, ttl)
        \/ \E k \in Keys, tv \in TypedVals : SetCommit(c, k, tv)
        \/ \E k \in Keys, T \in Types : Get(c, k, T)
        \/ \E k \in Keys : RemoveKey(c, k)

Next == CallerStep \/ DrvSweep \/ Tick

\* The program with values whose Clone and Drop do not panic.
Spec == Init /\ [][Next]_vars

PanicStep ==
    \E c \in Callers :
        \/ \E k \in Keys, T \in Types : PanicInClone(c, k, T)
        \/ \E k \in Keys, tv \in TypedVals : PanicInDrop(c, k, tv)

NextPoison == Next \/ PanicStep

\* The program with values whose Clone or Drop may panic under the lock.
SpecPoison == Init /\ [][NextPoison]_vars

\* The driver is due: its tick / sleep has elapsed and it has not swept yet.
DrvDue == drv.pc = "wait" /\ clock >= drv.next

\* Time passes under a timely scheduler: operations take no time, so the
\* clock does not advance while a set is between its two steps or while the
\* driver is due.
TickTimed ==
    /\ \A c \in Callers : pc[c] # "set_lock"
    /\ ~DrvDue
    /\ Tick

NextTimed == CallerStep \/ DrvSweep \/ TickTimed

\* The program on a timely scheduler (what the tests of lib.rs rely on).
SpecTimed == Init /\ [][NextTimed]_vars

\* The steps that can change the map or the clock (get changes neither).
NextMap ==
    \/ \E c \in Callers :
          \/ \E ttl \in 0..MaxTtl : SetCall(c, ttl)
          \/ \E k \in Keys, tv \in TypedVals : SetCommit(c, k, tv)
          \/ \E k \in Keys : RemoveKey(c, k)
    \/ DrvSweep
    \/ Tick

\* The program with time advancing and the driver scheduled fairly; nothing
\* is assumed of the callers, which may set and remove at any time or stop.
FairSpec == Init /\ [][NextMap]_vars /\ WF_vars(Tick) /\ WF_vars(DrvSweep)

\* Two keys more than the threshold: enough distinct keys for the map to grow
\* past threshold + 1 if nothing stopped it.
CapKeys == 1..(MaxCacheSize + 2)

\* The capacity does not depend on what is stored: one value.
CapVal == [ty |-> "i32", v |-> 1]

\* The stores of lib.rs.
InitLib == Init /\ impl \in {"Cache", "CacheRwLock"}

NextCap ==
    \/ \E c \in Callers :
          \/ \E ttl \in 0..MaxTtl : SetCall(c, ttl)
          \/ \E k \in CapKeys : SetCommit(c, k, CapVal)
          \/ \E k \in CapKeys : Get(c, k, CapVal.ty)
          \/ \E k \in CapKeys : RemoveKey(c, k)
    \/ DrvSweep
    \/ Tick

\* Cache and CacheRwLock of lib.rs driven with keys from CapKeys.
SpecCap == InitLib /\ [][NextCap]_vars

\* ------------------------------------------------- the map lock, step by step

\* Mutex::lock / RwLock::write can be granted: nobody holds the lock.
CanWrite(l) == l.w = NoProc /\ l.r = {}

\* Mutant of CanRead: a shared request is granted beside an exclusive holder.
CanRead_Always(im, l) == TRUE

\* The lock get asks for can be granted: Mutex::lock (Cache, lines 18-22)
\* needs the lock free, RwLock::read (CacheRwLock, lines 119-123) needs no
\* exclusive holder.
CanRead(im, l) == IF im = "CacheRwLock" THEN l.w = NoProc ELSE CanWrite(l)

\* The lock after process p was granted what get asks for.
ReadLocked(im, l, p) ==
    IF im = "CacheRwLock" THEN [l EXCEPT !.r = l.r \cup {p}] ELSE [l EXCEPT !.w = p]

\* The lock after process p was granted exclusive access.
WriteLocked(l, p) == [l EXCEPT !.w = p]

\* Mutant of Released: the guard is leaked and the lock stays held.
Released_Leak(l, p) == l

\* The lock after process p dropped its guard.
Released(l, p) == [w |-> IF l.w = p THEN NoProc ELSE l.w, r |-> l.r \ {p}]

\* data.clear() of the overflow check alone.
Flushed(im, d) == IF Overflows(im, d) THEN Empty ELSE d

\* Mutant of Put: an entry that is replaced keeps its old expiration.
Put_KeepExp(d, k, e) ==
    [x \in (DOMAIN d) \cup {k} |->
        IF x = k THEN (IF k \in DOMAIN d THEN [e EXCEPT !.exp = d[k].exp] ELSE e) ELSE d[x]]

\* What data.insert(key, entry) hands back (and the code drops): the entry it
\* replaced, if there was one; the model keeps its expiration.
Replaced(d, k) == IF k \in DOMAIN d THEN SomeRes(d[k].exp) ELSE NoneRes

\* data.insert(key, entry) alone.
Put(d, k, e) == [x \in (DOMAIN d) \cup {k} |-> IF x = k THEN e ELSE d[x]]

\* get is called and asks for the map lock (line 18 / 119).
LGetCall(c) ==
    /\ pc[c] = "idle"
    /\ pc' = [pc EXCEPT ![c] = "get_lock"]
    /\ last' = Null
    /\ UNCHANGED <<impl, secs, data, mapPoisoned, clock, arg, drv, hist, lk>>

\* get is granted the map lock.
LGetAcquire(c) ==
    /\ pc[c] = "get_lock"
    /\ CanRead(impl, lk)
    /\ lk' = ReadLocked(impl, lk, c)
    /\ pc' = [pc EXCEPT ![c] = "get_map"]
    /\ last' = Null
    /\ UNCHANGED <<impl, secs, data, mapPoisoned, clock, arg, drv, hist>>

\* get looks the key up (line 23 / 124) and, when it is stored, takes the
\* entry's lock (line 24 / 125); when it is not, get returns None (line 30)
\* and drops the map guard.  The key is first read here and the requested
\* type at the downcast, so they are drawn where they are read.
LGetLookup(c, k, T) ==
    /\ pc[c] = "get_map"
    /\ IF k \in DOMAIN data
       THEN /\ pc' = [pc EXCEPT ![c] = "get_entry"]
            /\ arg' = [arg EXCEPT ![c] = [op |-> "get", key |-> k]]
            /\ last' = Null
            /\ lk' = lk
       ELSE /\ pc' = [pc EXCEPT ![c] = "idle"]
            /\ arg' = arg
            /\ last' = Obs("get", c, k, T, NoneRes, FALSE, "no")
            /\ lk' = Released(lk, c)
    /\ UNCHANGED <<impl, secs, data, mapPoisoned, clock, drv, hist>>

\* get downcasts and clones under the entry's lock (line 27 / 128), returns,
\* and drops the entry guard and then the map guard.
LGetReturn(c, T) ==
    /\ pc[c] = "get_entry"
    /\ last' = Obs("get", c, arg[c].key, T, Lookup(data, arg[c].key, T), FALSE, "no")
    /\ pc' = [pc EXCEPT ![c] = "idle"]
    /\ arg' = [arg EXCEPT ![c] = Null]
    /\ lk' = Released(lk, c)
    /\ UNCHANGED <<impl, secs, data, mapPoisoned, clock, drv, hist>>

\* set (called in SetCall) is granted the map lock (line 43 / 150).
LSetAcquire(c) ==
    /\ pc[c] = "set_lock"
    /\ CanWrite(lk)
    /\ lk' = WriteLocked(lk, c)
    /\ pc' = [pc EXCEPT ![c] = "set_map"]
    /\ last' = Null
    /\ UNCHANGED <<impl, secs, data, mapPoisoned, clock, arg, drv, hist>>

\* set's overflow check (lines 48-51 / 155-158).
LSetCheck(c) ==
    /\ pc[c] = "set_map"
    /\ data' = Flushed(impl, data)
    /\ hist' = IF Overflows(impl, data) THEN [x \in Keys |-> Null] ELSE hist
    /\ arg' = [arg EXCEPT ![c] = [op |-> "set", exp |-> arg[c].exp, fl |-> Overflows(impl, data)]]
    /\ pc' = [pc EXCEPT ![c] = "set_ins"]
    /\ last' = Null
    /\ UNCHANGED <<impl, secs, mapPoisoned, clock, drv, lk>>

\* set's insert (line 52 / 159) and the drop of the map guard.
LSetInsert(c, k, tv) ==
    /\ pc[c] = "set_ins"
    /\ data' = Put(data, k, Entry(tv, arg[c].exp))
    /\ hist' = [hist EXCEPT ![k] = [op |-> "set", ty |-> tv.ty, v |-> tv.v, exp |-> arg[c].exp]]
    /\ pc' = [pc EXCEPT ![c] = "idle"]
    /\ arg' = [arg EXCEPT ![c] = Null]
    /\ last' = Obs("set", c, k, tv.ty, Replaced(data, k), arg[c].fl, "no")
    /\ lk' = Released(lk, c)
    /\ UNCHANGED <<impl, secs, mapPoisoned, clock, drv>>

\* remove is called and asks for the map lock (line 56 / 163).
LRemoveCall(c) ==
    /\ pc[c] = "idle"
    /\ pc' = [pc EXCEPT ![c] = "rm_lock"]
    /\ last' = Null
    /\ UNCHANGED <<impl, secs, data, mapPoisoned, clock, arg, drv, hist, lk>>

\* remove is granted the map lock.
LRemoveAcquire(c) ==
    /\ pc[c] = "rm_lock"
    /\ CanWrite(lk)
    /\ lk' = WriteLocked(lk, c)
    /\ pc' = [pc EXCEPT ![c] = "rm_map"]
    /\ last' = Null
    /\ UNCHANGED <<impl, secs, data, mapPoisoned, clock, arg, drv, hist>>

\* remove takes the key out (line 60 / 168) and drops the map guard.
LRemoveDo(c, k) ==
    /\ pc[c] = "rm_map"
    /\ data' = Remove(data, k)
    /\ hist' = [hist EXCEPT ![k] = Null]
    /\ pc' = [pc EXCEPT ![c] = "idle"]
    /\ last' = Obs("remove", c, k, "-", Removed(data, k), FALSE, "no")
    /\ lk' = Released(lk, c)
    /\ UNCHANGED <<impl, secs, mapPoisoned, clock, arg, drv>>

\* The driver's tick / sleep has elapsed and clear_expired_entries is granted
\* the map lock (line 66 / 172).
LSweepAcquire ==
    /\ drv.pc = "wait"
    /\ clock >= drv.next
    /\ CanWrite(lk)
    /\ lk' = WriteLocked(lk, Driver)
    /\ drv' = [drv EXCEPT !.pc = "sw_map"]
    /\ last' = Null
    /\ UNCHANGED <<impl, secs, data, mapPoisoned, clock, pc, arg, hist>>

\* clear_expired_entries reads the clock and retains (lines 71-72 / 177-181),
\* drops the map guard, and the driver waits for its next tick.
LSweepDo ==
    /\ drv.pc = "sw_map"
    /\ data' = Sweep(impl, data, clock)
    /\ hist' = HistAfterSweep(Sweep(impl, data, clock), clock)
    /\ drv' = [pc |-> "wait", next |-> NextWake(impl, drv.next, clock, secs), first |-> FALSE]
    /\ last' = Obs("sweep", Driver, 0, "-", NoneRes, FALSE, "no")
    /\ lk' = Released(lk, Driver)
    /\ UNCHANGED <<impl, secs, mapPoisoned, clock, pc, arg>>

\* One step of caller c in the lock-level program.
LCaller(c) ==
    \/ LGetCall(c)
    \/ LGetAcquire(c)
    \/ \E k \in Keys, T \in Types : LGetLookup(c, k, T)
    \/ \E T \in Types : LGetReturn(c, T)
    \/ \E ttl \in 0..MaxTtl : SetCall(c, ttl)
    \/ LSetAcquire(c)
    \/ LSetCheck(c)
    \/ \E k \in Keys, tv \in TypedVals : LSetInsert(c, k, tv)
    \/ LRemoveCall(c)
    \/ LRemoveAcquire(c)
    \/ \E k \in Keys : LRemoveDo(c, k)

NextLock == (\E c \in Callers : LCaller(c)) \/ LSweepAcquire \/ LSweepDo \/ Tick

\* The program with every lock operation a step of its own (values whose
\* Clone and Drop do not panic, so the lock is never poisoned).
SpecLock == Init /\ [][NextLock]_vars

\* Caller c is granted the map lock it waits for.
LAcquire(c) == LGetAcquire(c) \/ LSetAcquire(c) \/ LRemoveAcquire(c)

\* A step of caller c under the map lock; what is stored does not matter to
\* the locking, so one value and one requested type are drawn.
LInside(c) ==
    \/ \E k \in Keys : LGetLookup(c, k, CapVal.ty)
    \/ LGetReturn(c, CapVal.ty)
    \/ LSetCheck(c)
    \/ \E k \in Keys : LSetInsert(c, k, CapVal)
    \/ \E k \in Keys : LRemoveDo(c, k)

\* Caller c calls an operation.
LCall(c) == LGetCall(c) \/ LRemoveCall(c) \/ \E ttl \in 0..MaxTtl : SetCall(c, ttl)

\* Time passes, up to MaxLiveClock.
TickLive == clock < MaxLiveClock /\ Tick

NextLive ==
    \/ \E c \in Callers : LCall(c) \/ LAcquire(c) \/ LInside(c)
    \/ LSweepAcquire
    \/ LSweepDo
    \/ TickLive

\* The lock-level program under fair scheduling: a process under the lock
\* keeps running, and a process that waits for the lock is granted it if the
\* lock is free again and again.  Callers may call at any time or never.
FairLock ==
    /\ Init
    /\ [][NextLive]_vars
    /\ \A c \in Callers : WF_vars(LInside(c)) /\ SF_vars(LAcquire(c))
    /\ WF_vars(LSweepDo)
    /\ SF_vars(LSweepAcquire)

\* ------------------------------------------------------------------ claims

\* The entry a set stored (ghost record h) has not reached its expiration time.
Live(h) == h.op = "set" /\ (h.exp = NoExp \/ clock < h.exp)

\* C1: get never returns an entry whose expires_at is in the past, even when
\* no sweep has removed it yet.  (The code never reads the expiration in get.)
C1_GetNeverReturnsExpired ==
    (/\ last.op = "get"
     /\ last.key \in DOMAIN data
     /\ data[last.key].exp # NoExp
     /\ data[last.key].exp < clock)
    => ~last.res.some

\* C2: read-your-writes.  A get of key k with the type of the value that the
\* last set stored under k returns Some of that value, as long as k was not
\* removed, overwritten or flushed since and its expiration time has not come
\* (whatever the other callers and the driver did in between).
C2_ReadYourWrites ==
    (/\ last.op = "get"
     /\ Live(hist[last.key])
     /\ hist[last.key].ty = last.ty)
    => last.res = SomeRes(hist[last.key].v)

\* C2 witness: a get returned the value of an expiring entry before its
\* expiration time, after the driver has swept and with the other key stored.
C2_Witness ==
    /\ last.op = "get"
    /\ last.res.some
    /\ hist[last.key].op = "set"
    /\ hist[last.key].exp # NoExp
    /\ clock < hist[last.key].exp
    /\ ~drv.first
    /\ DOMAIN data = Keys

\* C3 (state part): for a key holding a live entry stored as type S with value
\* v, get::<T> returns Some(v) when T = S and None when T # S.
C3_Typed ==
    (/\ last.op = "get"
     /\ Live(hist[last.key]))
    => last.res = IF last.ty = hist[last.key].ty
                  THEN SomeRes(hist[last.key].v)
                  ELSE NoneRes

\* C3: typed retrieval without conversion, and a get (mismatching or not)
\* leaves the map as it was, so the entry stays retrievable.
C3_TypedRetrieval == []C3_Typed /\ [][last'.op = "get" => data' = data]_vars

\* C3 witness: a get asked for u16 where an i32 is stored, got None, and the
\* entry is still stored.
C3_Witness ==
    /\ last.op = "get"
    /\ last.ty = "u16"
    /\ last.res = NoneRes
    /\ Live(hist[last.key])
    /\ hist[last.key].ty = "i32"
    /\ last.key \in DOMAIN data
    /\ data[last.key].ty = "i32"

\* C4: a set that finds more than the threshold of entries stored leaves the
\* map holding exactly the key it set.  (main.rs Cache::set has no check.)
C4_OverflowFlush ==
    [][(last'.op = "set" /\ Cardinality(DOMAIN data) > MaxCacheSize)
       => DOMAIN data' = {last'.key}]_vars

\* C5: a sweep at time now removes exactly the entries whose expiration time
\* is present and <= now, and keeps the others unchanged.  (CacheRwLock keeps
\* an entry whose expiration time equals now.)
C5_SweepExact ==
    [][last'.op = "sweep"
       => data' = [k \in {x \in DOMAIN data :
                             data[x].exp = NoExp \/ data[x].exp > clock} |-> data[k]]]_vars

\* C6: once the map lock is poisoned, every operation returns without effect
\* and without panicking, and get returns None.  (main.rs unwraps the lock.)
C6_PoisonDegrades ==
    [][mapPoisoned
       => /\ data' = data
          /\ last' # Null => (last'.panic = "no" /\ ~last'.res.some)]_vars

\* C7: the driver, started at clock 0 with interval secs, does not call
\* clear_expired_entries before clock secs.  (tokio's interval ticks at once.)
C7_NoSweepOnStart ==
    [][(last'.op = "sweep" /\ drv.first) => clock >= secs]_vars

\* C8: after concurrent sets of one key with ttl 0, a get of the key with the
\* stored type returns the value of the set that took the map lock last:
\* never None, never another value, however far the clock and the driver went.
C8_LastWriterWins ==
    (/\ last.op = "get"
     /\ hist[last.key].op = "set"
     /\ hist[last.key].exp = NoExp
     /\ hist[last.key].ty = last.ty)
    => last.res = SomeRes(hist[last.key].v)

\* C8 witness: all sets have completed, the driver has swept at the last
\* clock value, and a get returned the non-expiring value 2.
C8_Witness ==
    /\ last.op = "get"
    /\ last.res = SomeRes(2)
    /\ hist[last.key].op = "set"
    /\ hist[last.key].exp = NoExp
    /\ \A c \in Callers : pc[c] = "idle"
    /\ clock = MaxClock
    /\ drv.next > MaxClock

\* C9: on a timely scheduler with the driver running at interval secs, an
\* entry set with ttl > 0 is returned by get before its expiration time, and
\* no get returns an entry once more than ttl + secs has passed since its set
\* (the clock is past its expiration time plus secs).
C9_ExpiryWithDriver ==
    last.op = "get" =>
        /\ (/\ Live(hist[last.key])
            /\ hist[last.key].exp # NoExp
            /\ hist[last.key].ty = last.ty)
           => last.res = SomeRes(hist[last.key].v)
        /\ last.res.some
           => /\ last.key \in DOMAIN data
              /\ \/ data[last.key].exp = NoExp
                 \/ clock <= data[last.key].exp + secs

\* C9 witness: a get returned None for a key whose entry a sweep removed, more
\* than secs after the entry's expiration time.
C9_Witness ==
    /\ last.op = "get"
    /\ last.res = NoneRes
    /\ hist[last.key].op = "swept"
    /\ clock > hist[last.key].exp + secs

\* Some key stores an entry with expiration time e.
Stored(e) == \E k \in DOMAIN data : data[k].exp = e

\* The driver's schedule has a sweep after e that lies within the clock bound
\* (no e >= MaxClock has one: the clock stops at MaxClock).
WithinHorizon(e) ==
    /\ drv.pc = "wait"
    /\ drv.next <= MaxClock
    /\ (e < drv.next \/ e + secs <= MaxClock)

\* C10: with time advancing and the driver scheduled fairly, the entries
\* stored with expiration time e are eventually all removed from the map,
\* whether or not any caller acts again.
C10_EventualReclamation ==
    \A e \in 1..(MaxClock - 1) : (Stored(e) /\ WithinHorizon(e)) ~> ~Stored(e)

\* C10 witness: a sweep has removed an expired entry while no caller was in
\* an operation, and the key is no longer stored.
C10_Witness ==
    /\ last.op = "sweep"
    /\ \E k \in Keys : hist[k].op = "swept" /\ k \notin DOMAIN data
    /\ \A c \in Callers : pc[c] = "idle"

\* C11 (state part): a key that was removed (or never set, or flushed) and not
\* set since gives None for every requested type.
C11_Gone == (last.op = "get" /\ hist[last.key] = Null) => last.res = NoneRes

\* C11: remove(k) deletes exactly the entry of k.  Afterwards get(k) returns
\* None whatever was stored and whatever type is asked for, every other key
\* keeps its entry (value and expiration), and remove of an absent key leaves
\* the whole map unchanged.
C11_RemoveExact ==
    /\ []C11_Gone
    /\ [][last'.op = "remove"
          => data' = [x \in (DOMAIN data) \ {last'.key} |-> data[x]]]_vars

\* C11 witness: a remove took out a stored entry and the other key is still
\* stored.
C11_Witness ==
    /\ last.op = "remove"
    /\ last.res.some
    /\ last.key \notin DOMAIN data
    /\ DOMAIN data # {}

\* C12 as stated: after a sweep, a second sweep with no set in between (at
\* the same or at any later clock value) leaves the same stored entries.
\* (An entry whose expiration time comes between the two calls is kept by
\* the first and removed by the second.)
C12_SweepTwiceAnyTime ==
    \A t \in clock..MaxClock :
        Sweep(impl, Sweep(impl, data, clock), t) = Sweep(impl, data, clock)

\* C12 (state part): a second sweep at the same clock value removes nothing.
C12_SameInstant ==
    Sweep(impl, Sweep(impl, data, clock), clock) = Sweep(impl, data, clock)

\* C12 amended: two sweeps in a row with no step in between, hence at one
\* clock value, leave the same stored entries after the second as after the
\* first, and no sweep removes or alters an entry whose expiration time is
\* absent or still in the future.
C12_SweepIdempotent ==
    /\ []C12_SameInstant
    /\ [][(last.op = "sweep" /\ last'.op = "sweep") => data' = data]_vars
    /\ [][last'.op = "sweep"
          => \A k \in DOMAIN data :
                 (data[k].exp = NoExp \/ data[k].exp > clock)
                 => (k \in DOMAIN data' /\ data'[k] = data[k])]_vars

\* C12 witness: a sweep has just removed an expired entry and kept one that
\* expires later, and the driver's next sweep is due at the same clock value.
C12_Witness ==
    /\ last.op = "sweep"
    /\ DrvDue
    /\ \E k \in Keys : hist[k].op = "swept" /\ k \notin DOMAIN data
    /\ \E k \in DOMAIN data : data[k].exp > clock

\* C13 (state part): get returns a non-expiring entry (with its type) at any
\* clock value, until the key is overwritten, removed or flushed.
C13_NoExpStays ==
    \A k \in Keys :
        (hist[k].op = "set" /\ hist[k].exp = NoExp)
        => /\ k \in DOMAIN data
           /\ data[k].exp = NoExp
           /\ \A T \in Types : Lookup(data, k, T) =
                  (IF T = hist[k].ty THEN SomeRes(hist[k].v) ELSE NoneRes)

\* C13: set computes expires_at as the clock value it reads plus ttl when
\* ttl > 0 and as absent when ttl = 0, and stores exactly that; no sweep
\* removes a non-expiring entry, and get keeps returning it.
C13_TtlZeroNeverExpires ==
    /\ []C13_NoExpStays
    /\ [][\A c \in Callers, ttl \in 0..MaxTtl :
             SetCall(c, ttl)
             => arg'[c].exp = (IF ttl = 0 THEN NoExp ELSE clock + ttl)]_vars
    /\ [][last'.op = "set" => data'[last'.key].exp = arg[last'.c].exp]_vars
    /\ [][last'.op = "sweep"
          => \A k \in DOMAIN data :
                 data[k].exp = NoExp => (k \in DOMAIN data' /\ data'[k] = data[k])]_vars

\* C13 witness: at the last clock value the driver's last sweep has kept a
\* non-expiring entry, after an expiring entry was swept.
C13_Witness ==
    /\ last.op = "sweep"
    /\ clock = MaxClock
    /\ drv.next > MaxClock
    /\ \E k \in DOMAIN data : data[k].exp = NoExp /\ hist[k].op = "set"
    /\ \E k \in Keys : hist[k].op = "swept"

\* C14 (state part): every stored entry is, as a whole, the entry of the
\* last set of its key: its type, value and expiration come from that one
\* call; and a value that get returns is the value of that entry.
C14_EntryWhole ==
    /\ \A k \in DOMAIN data :
           /\ hist[k].op = "set"
           /\ data[k] = [ty |-> hist[k].ty, v |-> hist[k].v, exp |-> hist[k].exp, psn |-> FALSE]
    /\ (last.op = "get" /\ last.res.some)
       => (/\ hist[last.key].op = "set"
           /\ hist[last.key].ty = last.ty
           /\ hist[last.key].v = last.res.v)

\* C14: set on a stored key replaces value and expiration together.  The
\* insert stores the expiration computed from this call's ttl alone, and the
\* map does not change while any get is between taking and dropping the map
\* lock, so no get reads an entry that is half replaced.
C14_AtomicReplace ==
    /\ []C14_EntryWhole
    /\ [][last'.op = "set"
          => /\ data'[last'.key].exp = arg[last'.c].exp
             /\ data'[last'.key].ty = last'.ty
             /\ \A x \in (DOMAIN data') \ {last'.key} : data'[x] = data[x]]_vars
    /\ [][(\E c \in Callers : pc[c] \in {"get_map", "get_entry"}) => data' = data]_vars

\* C14 witness: a set has just replaced an expiring entry by a non-expiring
\* one with value 2 while another caller's get waits for the map lock.
C14_Witness ==
    /\ last.op = "set"
    /\ last.res.some
    /\ last.res.v # NoExp
    /\ data[last.key].exp = NoExp
    /\ data[last.key].v = 2
    /\ \E c \in Callers : pc[c] = "get_lock"

\* C15: in Cache and CacheRwLock of lib.rs the map never stores more than
\* threshold + 1 entries, whatever the callers and the driver do, and a set
\* that finds exactly the threshold (or fewer) stored flushes nothing.
C15_Capacity ==
    /\ [](Cardinality(DOMAIN data) <= MaxCacheSize + 1)
    /\ [][(last'.op = "set" /\ Cardinality(DOMAIN data) <= MaxCacheSize)
          => /\ ~last'.flush
             /\ \A k \in (DOMAIN data) \ {last'.key} :
                    k \in DOMAIN data' /\ data'[k] = data[k]]_vars

\* C15 witness: a set found exactly the threshold stored, flushed nothing,
\* and the map now holds threshold + 1 entries.
C15_Witness ==
    /\ last.op = "set"
    /\ ~last.flush
    /\ Cardinality(DOMAIN data) = MaxCacheSize + 1
    /\ \E k \in CapKeys \ DOMAIN data : TRUE

\* Caller c is between taking and dropping the map lock in a get.
Reading(c) == pc[c] \in {"get_map", "get_entry"}

\* Process p is between taking and dropping the map lock in a set, a remove
\* or a clear_expired_entries.
Writing(p) ==
    IF p = Driver THEN drv.pc = "sw_map" ELSE pc[p] \in {"set_map", "set_ins", "rm_map"}

\* The processes inside the map's critical section.
Inside == {p \in Procs : Writing(p) \/ (p # Driver /\ Reading(p))}

\* C16 (state part): with the Mutex at most one operation is inside the
\* critical section; with the RwLock a set, remove or sweep is inside alone,
\* and a get that waits is granted the lock whenever no writer is inside,
\* whatever other gets are inside.  A get never returns anything but the
\* value now stored under its key or None, and None for a swept key.
C16_Exclusive ==
    /\ impl # "CacheRwLock" => Cardinality(Inside) <= 1
    /\ (\E p \in Procs : Writing(p)) => Cardinality(Inside) = 1
    /\ \A c \in Callers :
           (impl = "CacheRwLock" /\ pc[c] = "get_lock" /\ ~\E p \in Procs : Writing(p))
           => ENABLED LGetAcquire(c)
    /\ last.op = "get"
       => /\ last.res = Lookup(data, last.key, last.ty)
          /\ hist[last.key].op = "swept" => last.res = NoneRes

\* C16: lock exclusion, and no step of a set, remove or sweep happens while a
\* get is inside the critical section.
C16_LockExclusion ==
    /\ []C16_Exclusive
    /\ [][(\E c \in Callers : Reading(c))
          => (data' = data /\ \A p \in Procs : ~Writing(p)')]_vars

\* C16 witness: in CacheRwLock two gets hold the lock of the same entry at
\* once while the driver's sweep is due and waits.
C16_Witness ==
    /\ impl = "CacheRwLock"
    /\ \A c \in Callers : pc[c] = "get_entry"
    /\ \A c, d \in Callers : arg[c].key = arg[d].key
    /\ data[arg[1].key].exp # NoExp
    /\ data[arg[1].key].exp < clock
    /\ DrvDue

\* Process p has asked for the map lock and waits for it.
Waiting(p) ==
    IF p = Driver THEN DrvDue ELSE pc[p] \in {"get_lock", "set_lock", "rm_lock"}

\* The request of a waiting process p can be granted now.
Grantable(p) == IF p = Driver THEN ENABLED LSweepAcquire ELSE ENABLED LAcquire(p)

\* A process p under the lock can take its next step.
Runnable(p) == IF p = Driver THEN ENABLED LSweepDo ELSE ENABLED LInside(p)

\* C17 (state part): no deadlock.  Every process under the lock can step;
\* a waiting process can be granted the lock unless a process is under it;
\* the lock is held by exactly the processes inside the critical section;
\* an entry lock is held (get_entry) only under the map lock, so never while
\* the map lock is asked for.
C17_NoDeadlock ==
    /\ \A p \in Inside : Runnable(p)
    /\ \A p \in Procs : Waiting(p) => (Grantable(p) \/ Inside # {})
    /\ \A p \in Procs : (lk.w = p \/ p \in lk.r) <=> p \in Inside
    /\ \A c \in Callers : pc[c] = "get_entry" => (c \in Inside /\ ~Waiting(c))

C18_Equivalent ==
    /\ Sweep("Cache", data, clock) = Sweep("CacheRwLock", data, clock)
    /\ \A k \in Keys, T \in Types :
           Lookup(Sweep("Cache", data, clock), k, T)
               = Lookup(Sweep("CacheRwLock", data, clock), k, T)

\* C19: set's overflow check counts every stored entry.  A set flushes
\* exactly when more than the threshold of entries is stored, whether or not
\* they have expired and whether or not its own key is among them, and after
\* a flush the map holds the set key alone.
C19_CountsAllStored ==
    [][last'.op = "set"
       => /\ last'.flush <=> Cardinality(DOMAIN data) > MaxCacheSize
          /\ last'.flush => DOMAIN data' = {last'.key}
          /\ data'[last'.key].exp = arg[last'.c].exp]_vars

\* C19 witness: the map holds threshold + 1 entries, all of them expired and
\* not yet swept, and a pending set of a key that is stored flushes them.
C19_Witness ==
    /\ Cardinality(DOMAIN data) = MaxCacheSize + 1
    /\ \A k \in DOMAIN data : data[k].exp # NoExp /\ data[k].exp < clock
    /\ \E c \in Callers, k \in DOMAIN data :
           ENABLED (SetCommit(c, k, CapVal) /\ last'.flush /\ DOMAIN data' = {k})

\* The entry stored under k is past its expiration time.
Expired(k) == k \in DOMAIN data /\ data[k].exp # NoExp /\ data[k].exp < clock

\* C20: get is read-only.  Whether it hits, misses the key, misses the type
\* or finds an entry past its expiration time, the map after the get holds
\* the same keys, values and expirations as before; in particular an expired
\* entry stays stored, and the lock's poison flag is untouched.
C20_GetReadOnly ==
    [][last'.op = "get"
       => /\ data' = data
          /\ mapPoisoned' = mapPoisoned
          /\ Expired(last'.key) => (last'.key \in DOMAIN data' /\ last'.res.some = (data[last'.key].ty = last'.ty))]_vars

\* C20 witness: a get of a key whose entry is past its expiration time has
\* returned, and the entry is still stored.
C20_Witness ==
    /\ last.op = "get"
    /\ Expired(last.key)
    /\ last.res.some

====
